---- MODULE Spec2Model ----
(***************************************************************************)
(* Model of runEcoScore.js: the command-line entry point, the batch runner *)
(* processSubdomains, the per-domain pipeline getEcoScore and the score    *)
(* arithmetic.                                                             *)
(*                                                                         *)
(* JavaScript numbers are modelled as exact rationals <<n, d>> in lowest   *)
(* terms (d >= 1), with NaN as <<0, 0>>.  Math.round is floor(x + 1/2).    *)
(* Strings that the program inspects (file contents, lines, URLs) are      *)
(* sequences of tokens, so that split, trim and startsWith are computed.   *)
(***************************************************************************)
EXTENDS Integers, Sequences, FiniteSets, TLC

VARIABLES
    argv,           \* process.argv.slice(2)
    fileReadable,   \* whether fs.readFileSync(filePath) succeeds
    fileData,       \* contents of the input file (token sequence)
    pc,             \* position of the single thread of control
    exitCode,       \* exit status of the process (meaningful once pc = "exited")
    stderr,         \* kinds of messages written with console.error
    writeStream,    \* the global writeStream: "undefined", "open" or "ended"
    streamOpens,    \* number of fs.createWriteStream calls
    streamEnds,     \* number of writeStream.end calls
    lateWrites,     \* number of writeStream.write calls made after end
    output,         \* chunks appended to the output file, in order
    subdomains,     \* the parsed list of input lines
    idx,            \* number of list entries whose loop iteration is finished
    subdomain,      \* loop variable, after formatUrl
    browsers,       \* number of browser instances launched and not closed
    lhr,            \* getEcoScore local: the audit record
    scores,         \* getEcoScore local: result of getLighthouseScores
    serverLocation, \* getEcoScore local
    isGreenHost,    \* getEcoScore local
    cur,            \* history of the loop iteration in progress
    trace,          \* history of the finished loop iterations
    probe,          \* inputs of one direct evaluation of the scoring code
    probeOut        \* results of that evaluation

vars == <<argv, fileReadable, fileData, pc, exitCode, stderr, writeStream,
          streamOpens, streamEnds, lateWrites, output, subdomains, idx,
          subdomain, browsers, lhr, scores, serverLocation, isGreenHost,
          cur, trace, probe, probeOut>>

batchVars == <<argv, fileReadable, fileData, exitCode, stderr, writeStream,
               streamOpens, streamEnds, lateWrites, output, subdomains, idx,
               subdomain, browsers, lhr, scores, serverLocation, isGreenHost,
               cur, trace>>

-----------------------------------------------------------------------------
(* Bounds *)

MaxLines == 2          \* lines in the input file
MaxLoadMs == 3495      \* upper end of the second dense range of paint times (ms)
MaxSeoStep == 4        \* SEO percentages probed: multiples of 5 from 85 up

-----------------------------------------------------------------------------
(* Numbers *)

\* The operators of this section bind their arguments to values before
\* using them (x \in {a}), so that an argument expression is evaluated once.

RECURSIVE GCD(_, _)
GCD(a, b) ==
    CHOOSE r \in {IF y = 0 THEN x ELSE GCD(y, x % y) : x \in {a}, y \in {b}} : TRUE

NaN == <<0, 0>>

isNaN(x) == x[2] = 0

Rat(n, d) ==
    CHOOSE r \in {<<x \div g, y \div g>> : x \in {n}, y \in {d}, g \in {GCD(n, d)}} : TRUE

Whole(n) == <<n, 1>>

IsInteger(x) == x[2] = 1

MulOf(x, y) ==
    IF isNaN(x) \/ isNaN(y) THEN NaN
    ELSE LET g1 == GCD(x[1], y[2])
             g2 == GCD(y[1], x[2])
             h1 == IF g1 = 0 THEN 1 ELSE g1
             h2 == IF g2 = 0 THEN 1 ELSE g2
         IN  Rat((x[1] \div h1) * (y[1] \div h2), (x[2] \div h2) * (y[2] \div h1))

Mul(a, b) == CHOOSE r \in {MulOf(x, y) : x \in {a}, y \in {b}} : TRUE

\* a / b for b > 0 (every division in the program has a positive divisor
\* or a NaN operand on the paths that reach it)
Div(a, b) ==
    CHOOSE r \in {IF isNaN(y) THEN NaN ELSE MulOf(x, <<y[2], y[1]>>) :
                    x \in {a}, y \in {b}} : TRUE

Add(a, b) ==
    CHOOSE r \in {IF isNaN(x) \/ isNaN(y) THEN NaN
                  ELSE Rat(x[1] * y[2] + y[1] * x[2], x[2] * y[2]) :
                    x \in {a}, y \in {b}} : TRUE

\* a <= b; any comparison with NaN is false
Leq(a, b) ==
    \E x \in {a}, y \in {b} :
        ~isNaN(x) /\ ~isNaN(y) /\ x[1] * y[2] <= y[1] * x[2]

Lt(a, b) ==
    \E x \in {a}, y \in {b} :
        ~isNaN(x) /\ ~isNaN(y) /\ x[1] * y[2] < y[1] * x[2]

MathMin(a, b) ==
    CHOOSE r \in {IF isNaN(x) \/ isNaN(y) THEN NaN
                  ELSE IF x[1] * y[2] <= y[1] * x[2] THEN x ELSE y :
                    x \in {a}, y \in {b}} : TRUE

MathRound(a) ==
    CHOOSE r \in {IF isNaN(x) THEN NaN
                  ELSE Whole((2 * x[1] + x[2]) \div (2 * x[2])) :
                    x \in {a}} : TRUE

-----------------------------------------------------------------------------
(* Thresholds and weights *)

CO2_GOAL == Rat(6, 10)
PAGE_LOAD_TIME_GOAL_SECONDS == Rat(34, 10)
SEO_GOAL == 85
PERFORMANCE_SCORE_GOAL == 85

PERFORMANCE_WEIGHT == Rat(20, 100)
SEO_WEIGHT == Rat(20, 100)
CO2_WEIGHT == Rat(40, 100)
PAGE_LOAD_TIME_WEIGHT == Rat(20, 100)

\* The entries of the country table that the modelled lookups can hit.
countryNameToCode ==
    [c \in {"France", "Germany", "United States"} |->
        CASE c = "France" -> "FRA"
          [] c = "Germany" -> "DEU"
          [] c = "United States" -> "USA"]

Undefined == "undefined"

\* countryNameToCode[name]: undefined for a name that is not a key
CountryCodeOf(name) ==
    IF name \in DOMAIN countryNameToCode THEN countryNameToCode[name]
    ELSE Undefined

-----------------------------------------------------------------------------
(* Strings *)

Space == " "
Newline == "\n"

RECURSIVE Split(_)
\* data.split('\n'): the pieces between newlines; always at least one piece
Split(data) ==
    CHOOSE r \in
        {IF \A i \in 1..Len(d) : d[i] # Newline THEN <<d>>
         ELSE LET k == CHOOSE i \in 1..Len(d) :
                           d[i] = Newline /\ \A j \in 1..(i - 1) : d[j] # Newline
              IN  <<SubSeq(d, 1, k - 1)>> \o Split(SubSeq(d, k + 1, Len(d))) :
         d \in {data}} : TRUE

RECURSIVE trim(_)
trim(line) ==
    CHOOSE r \in
        {IF l = <<>> THEN l
         ELSE IF Head(l) = Space THEN trim(Tail(l))
         ELSE IF l[Len(l)] = Space THEN trim(SubSeq(l, 1, Len(l) - 1))
         ELSE l :
         l \in {line}} : TRUE

RECURSIVE MapTrim(_)
MapTrim(lines) ==
    CHOOSE r \in
        {IF ls = <<>> THEN <<>> ELSE <<trim(Head(ls))>> \o MapTrim(Tail(ls)) :
         ls \in {lines}} : TRUE

RECURSIVE FilterNonEmpty(_)
FilterNonEmpty(lines) ==
    CHOOSE r \in
        {IF ls = <<>> THEN <<>>
         ELSE IF Len(Head(ls)) > 0 THEN <<Head(ls)>> \o FilterNonEmpty(Tail(ls))
         ELSE FilterNonEmpty(Tail(ls)) :
         ls \in {lines}} : TRUE

\* data.split('\n').map(line => line.trim()).filter(line => line.length > 0)
ParseSubdomains(data) == FilterNonEmpty(MapTrim(Split(data)))

startsWith(url, prefix) == Len(url) > 0 /\ url[1] = prefix

formatUrl(url) ==
    IF ~startsWith(url, "http://") /\ ~startsWith(url, "https://")
    THEN <<"http://">> \o url
    ELSE url

-----------------------------------------------------------------------------
(* Command line *)

RECURSIVE ParseFrom(_, _, _)
\* the loop of parseArgs from position i (1-based) with the flags found so far
ParseFrom(av, i, args) ==
    CHOOSE r \in
        {IF k > Len(av) THEN found
         ELSE IF av[k] = "--urls" /\ k + 1 <= Len(av)
              THEN ParseFrom(av, k + 2, [found EXCEPT !.urls = av[k + 1]])
         ELSE IF av[k] = "--scoresfile" /\ k + 1 <= Len(av)
              THEN ParseFrom(av, k + 2, [found EXCEPT !.scoresfile = av[k + 1]])
         ELSE ParseFrom(av, k + 1, found) :
         k \in {i}, found \in {args}} : TRUE

parseArgs(av) == ParseFrom(av, 1, [urls |-> Undefined, scoresfile |-> Undefined])

-----------------------------------------------------------------------------
(* Audit adapter: extraction *)

RECURSIVE SumByType(_, _)
\* total of transferSize / 1024 over the requests of one resource type
SumByType(items, type) ==
    CHOOSE r \in
        {IF its = <<>> THEN Whole(0)
         ELSE IF Head(its).resourceType = type
              THEN Add(Div(Head(its).transferSize, Whole(1024)),
                       SumByType(Tail(its), type))
              ELSE SumByType(Tail(its), type) :
         its \in {items}} : TRUE

resourceBreakdown(items) ==
    [type \in {items[i].resourceType : i \in 1..Len(items)} |-> SumByType(items, type)]

\* reading .items of a missing details object throws a TypeError
LighthouseScoresThrows(r) == ~r.hasDetails

getLighthouseScores(r) ==
    [performance |-> Mul(r.performanceScore, Whole(100)),
     seo |-> Mul(r.seoScore, Whole(100)),
     pageLoadTime |-> Div(r.fcp, Whole(1000)),
     transferSize |-> Div(r.totalByteWeight, Whole(1024)),
     transferSizeBreakdown |-> resourceBreakdown(r.items)]

-----------------------------------------------------------------------------
(* CO2 estimator *)

\* Emission factor of the external estimator in units of 10^-8 g per byte:
\* the grid of the given country when one is passed in the options,
\* a global default otherwise.
GridFactor(country) ==
    CASE country = "FRA" -> 6
      [] country = "DEU" -> 30
      [] country = "USA" -> 33
      [] OTHER -> 36

\* co2.perByteTrace(bytes, green, options) of the estimator library:
\* proportional to the byte count, lower for a green host, and dependent
\* on the country only through the options argument.
perByteTrace(bytes, green, optionsCountry) ==
    LET grey == Mul(bytes, Rat(GridFactor(optionsCountry), 100000000))
    IN  [co2 |-> IF green THEN Mul(grey, Rat(5, 6)) ELSE grey,
         green |-> green]

calculateCO2_passOptions(pageWeight, countryCode, isGreen) ==
    perByteTrace(pageWeight, isGreen, countryCode)

\* optionsCalc is built from countryCode but not handed to perByteTrace
calculateCO2(pageWeight, countryCode, isGreen) ==
    perByteTrace(pageWeight, isGreen, Undefined)

-----------------------------------------------------------------------------
(* Score aggregation *)

co2Score(co2) ==
    IF co2 = Whole(0)
    THEN Mul(CO2_WEIGHT, Whole(100))
    ELSE MathMin(MathRound(Mul(Mul(Div(CO2_GOAL, co2), Whole(100)), CO2_WEIGHT)),
                 Mul(CO2_WEIGHT, Whole(100)))

performanceScore_noRound(s) == Mul(s.performance, PERFORMANCE_WEIGHT)

performanceScore(s) == MathRound(Mul(s.performance, PERFORMANCE_WEIGHT))

seoScore(s) ==
    MathRound(Mul(MathMin(Div(s.seo, Whole(SEO_GOAL)), Whole(100)), SEO_WEIGHT))

pageLoadTime_noNaNCheck(s) == s.pageLoadTime

pageLoadTime(s) == IF isNaN(s.pageLoadTime) THEN Whole(0) ELSE s.pageLoadTime

pageLoadTimeScore(s) ==
    IF Leq(pageLoadTime(s), PAGE_LOAD_TIME_GOAL_SECONDS)
    THEN Whole(100)
    ELSE MathRound(Mul(Div(PAGE_LOAD_TIME_GOAL_SECONDS, pageLoadTime(s)), Whole(100)))

weightedPageLoadTimeScore(s) ==
    MathRound(Mul(pageLoadTimeScore(s), PAGE_LOAD_TIME_WEIGHT))

ecoScore(s, co2) ==
    Add(Add(Add(performanceScore(s), seoScore(s)), weightedPageLoadTimeScore(s)),
        co2Score(co2))

\* the object returned by getEcoScore
EcoScoreReport(s, co2Emissions, location, isGreen) ==
    [EcoScore |-> MathMin(ecoScore(s, co2Emissions.co2), Whole(100)),
     PageWeight |-> s.transferSize,
     WeightBreakdown |-> s.transferSizeBreakdown,
     EmissionsPerPage |-> co2Emissions.co2,
     ServerLocation |-> location.country,
     GreenHosting |-> isGreen]

\* getEcoScore from the server-location check to the return statement
ScoreBody(s, location, isGreen) ==
    IF ~location.present
    THEN [threw |-> TRUE, error |-> "Could not determine server location",
          co2Invoked |-> FALSE]
    ELSE LET countryCode == CountryCodeOf(location.country)
             co2Emissions == calculateCO2(Mul(s.transferSize, Whole(1000)),
                                          countryCode, isGreen)
         IN  [threw |-> FALSE, co2Invoked |-> TRUE,
              report |-> EcoScoreReport(s, co2Emissions, location, isGreen)]

-----------------------------------------------------------------------------
(* Inputs of the batch run *)

Argvs ==
    {<<"--urls", "in.txt", "--scoresfile", "out.txt">>,
     <<"--scoresfile", "out.txt", "--urls", "in.txt">>,
     <<"--urls", "in.txt">>,
     <<"--scoresfile", "out.txt">>,
     <<"--urls", "in.txt", "--scoresfile">>,
     <<>>}

Lines ==
    {<<>>,
     <<Space>>,
     <<"a.com">>,
     <<Space, "https://", "b.org", Space>>}

RECURSIVE Join(_)
Join(ls) ==
    IF ls = <<>> THEN <<>>
    ELSE IF Len(ls) = 1 THEN ls[1]
    ELSE ls[1] \o <<Newline>> \o Join(Tail(ls))

Files == {Join(ls) : ls \in UNION {[1..n -> Lines] : n \in 0..MaxLines}}

NoItems == <<>>

SomeItems ==
    <<[resourceType |-> "Document", transferSize |-> Whole(2048)],
      [resourceType |-> "Script", transferSize |-> Whole(512)],
      [resourceType |-> "Script", transferSize |-> Whole(1024)]>>

\* audit records returned by the audit engine in the batch run
BatchLhrs ==
    {[hasDetails |-> TRUE, performanceScore |-> Rat(93, 100),
      seoScore |-> Rat(100, 100), fcp |-> Whole(1200),
      totalByteWeight |-> Whole(1024 * 1000), items |-> SomeItems],
     [hasDetails |-> FALSE, performanceScore |-> Rat(40, 100),
      seoScore |-> Rat(80, 100), fcp |-> NaN,
      totalByteWeight |-> Whole(0), items |-> NoItems]}

NoLhr == [present |-> FALSE]
NoScores == [present |-> FALSE]
NoLocation == [present |-> FALSE]
NoUrl == <<>>

Location(country) ==
    [present |-> TRUE, country |-> country, region |-> "region", city |-> "city"]

\* results of the DNS + geolocation lookup in the batch run
LocationOutcomes == {"France", "lookup failed"}

\* results of hosting.check in the batch run
HostingOutcomes == {"green", "grey", "check failed"}

NoCur ==
    [launched |-> FALSE, locationAbsent |-> FALSE, hostingError |-> FALSE,
     co2Invoked |-> FALSE]

NoProbe == [present |-> FALSE]

-----------------------------------------------------------------------------
(* Batch run: initial state *)

Init ==
    /\ argv \in Argvs
    /\ fileReadable \in BOOLEAN
    /\ fileData \in Files
    /\ pc = "start"
    /\ exitCode = 0
    /\ stderr = {}
    /\ writeStream = "undefined"
    /\ streamOpens = 0
    /\ streamEnds = 0
    /\ lateWrites = 0
    /\ output = <<>>
    /\ subdomains = <<>>
    /\ idx = 0
    /\ subdomain = NoUrl
    /\ browsers = 0
    /\ lhr = NoLhr
    /\ scores = NoScores
    /\ serverLocation = NoLocation
    /\ isGreenHost = FALSE
    /\ cur = NoCur
    /\ trace = <<>>
    /\ probe = NoProbe
    /\ probeOut = [runs |-> 0]

-----------------------------------------------------------------------------
(* Batch run: steps *)

\* writeStream.write of each chunk in turn
Write(chunks) ==
    IF writeStream = "open"
    THEN /\ output' = output \o chunks
         /\ lateWrites' = lateWrites
    ELSE /\ output' = output
         /\ lateWrites' = lateWrites + Len(chunks)

\* the locals of getEcoScore go out of scope when the call returns or throws
DropLocals ==
    /\ lhr' = NoLhr
    /\ scores' = NoScores
    /\ serverLocation' = NoLocation
    /\ isGreenHost' = FALSE

EndIteration(history, failed, error) ==
    /\ trace' = Append(trace, [url |-> subdomain, failed |-> failed,
                               error |-> error,
                               launched |-> history.launched,
                               locationAbsent |-> history.locationAbsent,
                               hostingError |-> history.hostingError,
                               co2Invoked |-> history.co2Invoked])
    /\ cur' = NoCur
    /\ idx' = idx + 1
    /\ DropLocals
    /\ pc' = "loop"

\* A mutant of the per-domain catch: the error leaves the loop.
CatchDomainError_rethrow(history, error) ==
    /\ Write(<<[t |-> "error", url |-> subdomain, error |-> error]>>)
    /\ trace' = Append(trace, [url |-> subdomain, failed |-> TRUE,
                               error |-> error,
                               launched |-> history.launched,
                               locationAbsent |-> history.locationAbsent,
                               hostingError |-> history.hostingError,
                               co2Invoked |-> history.co2Invoked])
    /\ cur' = NoCur
    /\ idx' = idx + 1
    /\ DropLocals
    /\ pc' = "finally"

\* the catch clause of the loop body: an error thrown anywhere in
\* getEcoScore is written as an error line and the loop goes on
CatchDomainError(history, error) ==
    /\ Write(<<[t |-> "error", url |-> subdomain, error |-> error]>>)
    /\ EndIteration(history, TRUE, error)

\* argument validation at the top level of the script
ValidateArgs ==
    /\ pc = "start"
    /\ LET args == parseArgs(argv)
       IN  IF args.urls = Undefined \/ args.scoresfile = Undefined
           THEN /\ stderr' = stderr \cup {"usage"}
                /\ exitCode' = 1
                /\ pc' = "exited"
           ELSE /\ pc' = "open"
                /\ UNCHANGED <<stderr, exitCode>>
    /\ UNCHANGED <<argv, fileReadable, fileData, writeStream, streamOpens,
                   streamEnds, lateWrites, output, subdomains, idx, subdomain,
                   browsers, lhr, scores, serverLocation, isGreenHost, cur,
                   trace, probe, probeOut>>

\* processSubdomains: fs.createWriteStream(outputFilePath, {flags: 'a'})
CreateWriteStream ==
    /\ pc = "open"
    /\ writeStream' = "open"
    /\ streamOpens' = streamOpens + 1
    /\ pc' = "read"
    /\ UNCHANGED <<argv, fileReadable, fileData, exitCode, stderr, streamEnds,
                   lateWrites, output, subdomains, idx, subdomain, browsers,
                   lhr, scores, serverLocation, isGreenHost, cur, trace,
                   probe, probeOut>>

\* processSubdomains: read and parse the input file; a read error goes to
\* the outer catch, which logs it, and then to the finally clause
ReadFile ==
    /\ pc = "read"
    /\ IF fileReadable
       THEN /\ subdomains' = ParseSubdomains(fileData)
            /\ pc' = "loop"
            /\ UNCHANGED stderr
       ELSE /\ stderr' = stderr \cup {"Error reading subdomains file"}
            /\ pc' = "finally"
            /\ UNCHANGED subdomains
    /\ UNCHANGED <<argv, fileReadable, fileData, exitCode, writeStream,
                   streamOpens, streamEnds, lateWrites, output, idx, subdomain,
                   browsers, lhr, scores, serverLocation, isGreenHost, cur,
                   trace, probe, probeOut>>

\* loop body up to the call of getEcoScore
BeginIteration ==
    /\ pc = "loop"
    /\ idx < Len(subdomains)
    /\ subdomain' = formatUrl(subdomains[idx + 1])
    /\ Write(<<[t |-> "header", url |-> formatUrl(subdomains[idx + 1])]>>)
    /\ pc' = "launch"
    /\ UNCHANGED <<argv, fileReadable, fileData, exitCode, stderr, writeStream,
                   streamOpens, streamEnds, subdomains, idx, browsers, lhr,
                   scores, serverLocation, isGreenHost, cur, trace, probe,
                   probeOut>>

\* the for loop is exhausted
LoopExit ==
    /\ pc = "loop"
    /\ idx >= Len(subdomains)
    /\ pc' = "finally"
    /\ UNCHANGED <<batchVars, probe, probeOut>>

\* runLighthouse: puppeteer.launch succeeds
LaunchBrowser ==
    /\ pc = "launch"
    /\ browsers' = browsers + 1
    /\ cur' = [cur EXCEPT !.launched = TRUE]
    /\ pc' = "audit"
    /\ UNCHANGED <<argv, fileReadable, fileData, exitCode, stderr, writeStream,
                   streamOpens, streamEnds, lateWrites, output, subdomains,
                   idx, subdomain, lhr, scores, serverLocation, isGreenHost,
                   trace, probe, probeOut>>

\* runLighthouse: the import or puppeteer.launch throws
LaunchFails ==
    /\ pc = "launch"
    /\ CatchDomainError(cur, "Failed to launch the browser process")
    /\ UNCHANGED <<argv, fileReadable, fileData, exitCode, stderr, writeStream,
                   streamOpens, streamEnds, subdomains, subdomain, browsers,
                   probe, probeOut>>

\* runLighthouse: the audit engine returns its record
AuditReturns ==
    /\ pc = "audit"
    /\ \E r \in BatchLhrs : lhr' = r
    /\ pc' = "close"
    /\ UNCHANGED <<argv, fileReadable, fileData, exitCode, stderr, writeStream,
                   streamOpens, streamEnds, lateWrites, output, subdomains,
                   idx, subdomain, browsers, scores, serverLocation,
                   isGreenHost, cur, trace, probe, probeOut>>

\* runLighthouse: the audit engine throws; the exception leaves
\* runLighthouse at the await, before browser.close()
AuditThrows ==
    /\ pc = "audit"
    /\ CatchDomainError(cur, "audit failed")
    /\ UNCHANGED <<argv, fileReadable, fileData, exitCode, stderr, writeStream,
                   streamOpens, streamEnds, subdomains, subdomain, browsers,
                   probe, probeOut>>

\* runLighthouse: await browser.close()
CloseBrowser ==
    /\ pc = "close"
    /\ browsers' = browsers - 1
    /\ pc' = "extract"
    /\ UNCHANGED <<argv, fileReadable, fileData, exitCode, stderr, writeStream,
                   streamOpens, streamEnds, lateWrites, output, subdomains,
                   idx, subdomain, lhr, scores, serverLocation, isGreenHost,
                   cur, trace, probe, probeOut>>

\* getEcoScore: getLighthouseScores(lhr)
ExtractScores ==
    /\ pc = "extract"
    /\ IF LighthouseScoresThrows(lhr)
       THEN /\ CatchDomainError(cur, "TypeError")
            /\ UNCHANGED <<browsers>>
       ELSE /\ scores' = getLighthouseScores(lhr)
            /\ pc' = "location"
            /\ UNCHANGED <<lateWrites, output, idx, lhr, serverLocation,
                           isGreenHost, cur, trace, browsers>>
    /\ UNCHANGED <<argv, fileReadable, fileData, exitCode, stderr, writeStream,
                   streamOpens, streamEnds, subdomains, subdomain, probe,
                   probeOut>>

\* getServerLocation: both lookups succeed, or one fails and the function
\* logs the error and returns null
getServerLocation ==
    /\ pc = "location"
    /\ \E o \in LocationOutcomes :
          IF o = "lookup failed"
          THEN /\ serverLocation' = NoLocation
               /\ stderr' = stderr \cup {"Error fetching server location"}
               /\ cur' = [cur EXCEPT !.locationAbsent = TRUE]
          ELSE /\ serverLocation' = Location(o)
               /\ UNCHANGED <<stderr, cur>>
    /\ pc' = "hosting"
    /\ UNCHANGED <<argv, fileReadable, fileData, exitCode, writeStream,
                   streamOpens, streamEnds, lateWrites, output, subdomains,
                   idx, subdomain, browsers, lhr, scores, isGreenHost, trace,
                   probe, probeOut>>

\* A mutant of checkGreenHosting: the lookup error is thrown on.
checkGreenHosting_rethrow ==
    /\ pc = "hosting"
    /\ \E o \in HostingOutcomes :
          IF o = "check failed"
          THEN /\ CatchDomainError([cur EXCEPT !.hostingError = TRUE],
                                   "hosting check failed")
               /\ UNCHANGED stderr
          ELSE /\ isGreenHost' = (o = "green")
               /\ pc' = "score"
               /\ UNCHANGED <<stderr, cur, lateWrites, output, idx, lhr,
                              scores, serverLocation, trace>>
    /\ UNCHANGED <<argv, fileReadable, fileData, exitCode, writeStream,
                   streamOpens, streamEnds, subdomains, subdomain, browsers,
                   probe, probeOut>>

\* checkGreenHosting: the directory answers, or the lookup throws and the
\* function logs the error and returns false
checkGreenHosting ==
    /\ pc = "hosting"
    /\ \E o \in HostingOutcomes :
          IF o = "check failed"
          THEN /\ isGreenHost' = FALSE
               /\ stderr' = stderr \cup {"Error checking green hosting"}
               /\ cur' = [cur EXCEPT !.hostingError = TRUE]
          ELSE /\ isGreenHost' = (o = "green")
               /\ UNCHANGED <<stderr, cur>>
    /\ pc' = "score"
    /\ UNCHANGED <<argv, fileReadable, fileData, exitCode, writeStream,
                   streamOpens, streamEnds, lateWrites, output, subdomains,
                   idx, subdomain, browsers, lhr, scores, serverLocation,
                   trace, probe, probeOut>>

\* getEcoScore from the location check to its return, then the two writes
\* of the loop body
ScoreAndWrite ==
    /\ pc = "score"
    /\ LET r == ScoreBody(scores, serverLocation, isGreenHost)
           history == [cur EXCEPT !.co2Invoked = r.co2Invoked]
       IN  IF r.threw
           THEN CatchDomainError(history, r.error)
           ELSE /\ Write(<<[t |-> "score", report |-> r.report],
                           [t |-> "sep"]>>)
                /\ EndIteration(history, FALSE, "")
    /\ UNCHANGED <<argv, fileReadable, fileData, exitCode, stderr, writeStream,
                   streamOpens, streamEnds, subdomains, subdomain, browsers,
                   probe, probeOut>>

\* getEcoScore: the external estimator throws inside calculateCO2
CO2Throws ==
    /\ pc = "score"
    /\ serverLocation.present
    /\ CatchDomainError([cur EXCEPT !.co2Invoked = TRUE], "CO2 estimation failed")
    /\ UNCHANGED <<argv, fileReadable, fileData, exitCode, stderr, writeStream,
                   streamOpens, streamEnds, subdomains, subdomain, browsers,
                   probe, probeOut>>

\* A mutant of the finally clause: the stream is left open.
EndStream_skip ==
    /\ pc = "finally"
    /\ pc' = "returned"
    /\ UNCHANGED <<batchVars, probe, probeOut>>

\* processSubdomains: finally { writeStream.end() }
EndStream ==
    /\ pc = "finally"
    /\ writeStream' = "ended"
    /\ streamEnds' = streamEnds + 1
    /\ pc' = "returned"
    /\ UNCHANGED <<argv, fileReadable, fileData, exitCode, stderr, streamOpens,
                   lateWrites, output, subdomains, idx, subdomain, browsers,
                   lhr, scores, serverLocation, isGreenHost, cur, trace,
                   probe, probeOut>>

\* The script has nothing left to run.  The process ends with status 0 once
\* no handle keeps it alive; a browser that was never closed is such a handle.
ProcessExit ==
    /\ pc = "returned"
    /\ browsers = 0
    /\ pc' = "exited"
    /\ UNCHANGED <<batchVars, probe, probeOut>>

Next ==
    \/ ValidateArgs
    \/ CreateWriteStream
    \/ ReadFile
    \/ BeginIteration
    \/ LoopExit
    \/ LaunchBrowser
    \/ LaunchFails
    \/ AuditReturns
    \/ AuditThrows
    \/ CloseBrowser
    \/ ExtractScores
    \/ getServerLocation
    \/ checkGreenHosting
    \/ ScoreAndWrite
    \/ CO2Throws
    \/ EndStream
    \/ ProcessExit

Spec == Init /\ [][Next]_vars

\* Every external call returns or throws, so the single thread of control
\* always takes its next step.
FairSpec == Spec /\ WF_vars(Next)

-----------------------------------------------------------------------------
(* Direct evaluation of the scoring code on a range of measurements *)

ProbePerformance == {0, 3, 100}

ProbeSeo == {0, 100, 1000} \cup {SEO_GOAL + 5 * k : k \in 0..MaxSeoStep}

ProbeFcp ==
    {NaN} \cup {Whole(ms) : ms \in {0, 1000, 5000, 60000}
                                  \cup (3398..3402) \cup (3480..MaxLoadMs)}

ProbeBytes == {0, 1024 * 1000, 1024 * 2000, 1024 * 100000}

\* pairs of answers of the geolocation service for the same domain
ProbeCountries ==
    {<<"France", "Germany">>, <<"France", "Atlantis">>, <<"Atlantis", "Germany">>}

ProbeInputs ==
    {[lhr |-> [hasDetails |-> TRUE, performanceScore |-> Rat(p, 100),
               seoScore |-> Rat(q, 100), fcp |-> f,
               totalByteWeight |-> Whole(b), items |-> SomeItems],
      country |-> c[1], otherCountry |-> c[2], green |-> g] :
        p \in ProbePerformance, q \in ProbeSeo, f \in ProbeFcp,
        b \in ProbeBytes, c \in ProbeCountries, g \in BOOLEAN}

ProbeInit ==
    /\ argv = <<>>
    /\ fileReadable = FALSE
    /\ fileData = <<>>
    /\ pc = "probe"
    /\ exitCode = 0
    /\ stderr = {}
    /\ writeStream = "undefined"
    /\ streamOpens = 0
    /\ streamEnds = 0
    /\ lateWrites = 0
    /\ output = <<>>
    /\ subdomains = <<>>
    /\ idx = 0
    /\ subdomain = NoUrl
    /\ browsers = 0
    /\ lhr = NoLhr
    /\ scores = NoScores
    /\ serverLocation = NoLocation
    /\ isGreenHost = FALSE
    /\ cur = NoCur
    /\ trace = <<>>
    /\ probe \in ProbeInputs
    /\ probeOut = [runs |-> 0]

\* getEcoScore after the audit, with the location lookup answering `country`
ProbeResult(country) ==
    ScoreBody(getLighthouseScores(probe.lhr), Location(country), probe.green)

ProbeFirst ==
    /\ pc = "probe"
    /\ probeOut.runs = 0
    /\ probeOut' = [runs |-> 1, first |-> ProbeResult(probe.country)]
    /\ UNCHANGED <<batchVars, pc, probe>>

ProbeSecond ==
    /\ pc = "probe"
    /\ probeOut.runs = 1
    /\ probeOut' = [runs |-> 2, first |-> probeOut.first,
                    second |-> ProbeResult(probe.otherCountry)]
    /\ UNCHANGED <<batchVars, pc, probe>>

ScoreNext == ProbeFirst \/ ProbeSecond

ScoreSpec == ProbeInit /\ [][ScoreNext]_vars

-----------------------------------------------------------------------------
(* Properties of the score arithmetic (under ScoreSpec) *)

ProbeScores == getLighthouseScores(probe.lhr)

ProbeValid ==
    /\ Leq(ProbeScores.performance, Whole(100))
    /\ Leq(ProbeScores.seo, Whole(100))

\* C1: for measurements in range (performance and SEO percentages in
\* [0,100], paint time >= 0 or NaN, emissions >= 0, location present) the
\* "Eco Score" of the report is an integer between 0 and 100.
C1_EcoScoreIntegerInRange ==
    (probeOut.runs >= 1 /\ ProbeValid) =>
        /\ ~probeOut.first.threw
        /\ IsInteger(probeOut.first.report.EcoScore)
        /\ Leq(Whole(0), probeOut.first.report.EcoScore)
        /\ Leq(probeOut.first.report.EcoScore, Whole(100))

C1_Witness ==
    /\ probeOut.runs >= 1
    /\ ProbeValid
    /\ ProbeScores.performance = Whole(3)
    /\ isNaN(ProbeScores.pageLoadTime)
    /\ probeOut.first.report.EmissionsPerPage = Whole(0)
    /\ probeOut.first.report.EcoScore = Whole(61)

\* C6: the SEO sub-score is 20 for every SEO percentage of 85 or more; in
\* particular 1000 and 85 give the same sub-score, 20.
C6_SeoCap ==
    (probeOut.runs >= 1 /\ Leq(Whole(SEO_GOAL), ProbeScores.seo)) =>
        seoScore(ProbeScores) = Whole(20)

C8_BestCaseIs100 ==
    (/\ probeOut.runs >= 1
     /\ ProbeScores.performance = Whole(100)
     /\ ProbeScores.seo = Whole(100)
     /\ ProbeScores.pageLoadTime = Whole(0)
     /\ probeOut.first.report.EmissionsPerPage = Whole(0))
    => probeOut.first.report.EcoScore = Whole(100)

-----------------------------------------------------------------------------
(* Properties of the batch run (under Spec and FairSpec) *)

FlagsGiven ==
    parseArgs(argv).urls # Undefined /\ parseArgs(argv).scoresfile # Undefined

Blank(line) == \A i \in 1..Len(line) : line[i] = Space

RECURSIVE UrlsOfLines(_)
UrlsOfLines(lines) ==
    IF lines = <<>> THEN <<>>
    ELSE IF Blank(Head(lines)) THEN UrlsOfLines(Tail(lines))
    ELSE <<formatUrl(trim(Head(lines)))>> \o UrlsOfLines(Tail(lines))

\* the normalized URL of every input line that is not blank, in file order
ExpectedUrls == UrlsOfLines(Split(fileData))

KindOf(chunk) ==
    IF chunk.t \in {"header", "error"} THEN <<chunk.t, chunk.url>> ELSE <<chunk.t>>

Shape(out) == [k \in 1..Len(out) |-> KindOf(out[k])]

RECURSIVE ExpectedShape(_)
\* header + error line for a failed domain, header + score + separator
\* for the others
ExpectedShape(tr) ==
    IF tr = <<>> THEN <<>>
    ELSE (IF Head(tr).failed
          THEN << <<"header", Head(tr).url>>, <<"error", Head(tr).url>> >>
          ELSE << <<"header", Head(tr).url>>, <<"score">>, <<"sep">> >>)
         \o ExpectedShape(Tail(tr))

BetweenDomains == pc \in {"loop", "finally", "returned", "exited"}

LoopFinished == pc \in {"finally", "returned", "exited"}

\* C2: with a readable input file, whatever domains fail and at whatever
\* stage, the output holds one block per non-blank input line, in input
\* order: an error block naming the domain if it failed, a score block
\* otherwise; every line is processed when the loop is over.
C2_BatchIsolation ==
    (fileReadable /\ streamOpens = 1 /\ BetweenDomains) =>
        /\ Shape(output) = ExpectedShape(trace)
        /\ Len(trace) <= Len(ExpectedUrls)
        /\ \A i \in 1..Len(trace) : trace[i].url = ExpectedUrls[i]
        /\ LoopFinished => Len(trace) = Len(ExpectedUrls)

C2_Witness ==
    /\ pc = "returned"
    /\ Len(trace) = 2
    /\ trace[1].failed
    /\ trace[1].error = "audit failed"
    /\ ~trace[2].failed
    /\ Len(output) = 5

\* C3: at most one browser instance is open at any time, and none is open
\* once a domain's audit has returned or thrown.
C3_BrowserAlwaysReleased ==
    /\ browsers <= 1
    /\ BetweenDomains => browsers = 0

\* C4: when both flags are given and the input file cannot be read, no
\* domain is processed and the process ends with a non-zero status.
C4_InputErrorFatal ==
    (FlagsGiven /\ ~fileReadable /\ pc = "exited") =>
        /\ trace = <<>>
        /\ output = <<>>
        /\ browsers = 0
        /\ exitCode # 0

\* C5: the output stream is opened at most once and, once opened, is
\* eventually ended, on every path; it is ended at most once and nothing is
\* written or reopened after the end.
C5_StreamLifecycle ==
    /\ [](/\ streamOpens <= 1
          /\ streamEnds <= 1
          /\ lateWrites = 0
          /\ (writeStream = "ended") => (streamOpens = 1 /\ streamEnds = 1))
    /\ [][(writeStream = "ended") => (writeStream' = "ended" /\ output' = output)]_vars
    /\ (streamOpens = 1) ~> (writeStream = "ended")

C5_Witness ==
    /\ writeStream = "ended"
    /\ streamOpens = 1
    /\ streamEnds = 1
    /\ Len(trace) >= 2
    /\ trace[1].failed

HeaderPositions(out) == {k \in 1..Len(out) : out[k].t = "header"}

HeaderPosition(out, i) ==
    CHOOSE k \in HeaderPositions(out) :
        Cardinality({j \in HeaderPositions(out) : j <= k}) = i

\* the chunks written for the i-th domain
Block(out, i) ==
    SubSeq(out, HeaderPosition(out, i),
           IF i < Cardinality(HeaderPositions(out))
           THEN HeaderPosition(out, i + 1) - 1
           ELSE Len(out))

\* C9: a domain whose location lookup returned nothing fails without a call
\* of the CO2 estimator, gets an error line naming it instead of a score
\* block, and is followed by the remaining domains; a failed green-hosting
\* lookup alone leads to a score block with "Green Hosting" false.
C9_LocationAbsentAbortsDomain ==
    \A i \in 1..Len(trace) :
        /\ trace[i].locationAbsent =>
              /\ trace[i].failed
              /\ ~trace[i].co2Invoked
              /\ Block(output, i) =
                    <<[t |-> "header", url |-> trace[i].url],
                      [t |-> "error", url |-> trace[i].url,
                       error |-> "Could not determine server location"]>>
              /\ LoopFinished => Len(trace) = Len(subdomains)
        /\ (/\ trace[i].hostingError
            /\ ~trace[i].locationAbsent
            /\ trace[i].error # "CO2 estimation failed") =>
              /\ ~trace[i].failed
              /\ trace[i].co2Invoked
              /\ Len(Block(output, i)) = 3
              /\ Block(output, i)[2].t = "score"
              /\ Block(output, i)[2].report.GreenHosting = FALSE

C9_Witness ==
    /\ Len(trace) = 2
    /\ trace[1].locationAbsent
    /\ trace[1].failed
    /\ trace[2].hostingError
    /\ ~trace[2].failed
    /\ Len(output) = 5

====
